---- MODULE Spec2Model ----
(***************************************************************************)
(* Model of the /bgf webhook of app.py: tradingview_webhook and            *)
(* connect_to_ib, together with the broker session they drive.              *)
(*                                                                          *)
(* Strings that the code takes apart (symbols) are sequences of            *)
(* one-character strings; strings it only compares or upper-cases (order   *)
(* types, actions) are TLA+ strings.  An optional JSON number is <<>> when *)
(* the field is absent or null and <<n>> when it is n.                     *)
(***************************************************************************)
EXTENDS Integers, Sequences, FiniteSets, TLC

VARIABLES
    orders,      \* data["orders"] of the request being handled
    pc,          \* position of the handler: "start", "connect", "loop", "done"
    i,           \* 1-based index of the next order of the per-order loop
    attempt,     \* connect_to_ib: the loop variable `attempt`
    slept,       \* connect_to_ib: time.sleep(delay) calls made so far
    results,     \* the list `results`
    response,    \* the (body summary, HTTP status) pair returned
    connected,   \* ib.isConnected() of the request's session
    calls,       \* broker calls made by the current request, in order
    positions,   \* broker: settled position per contract key
    openOrders,  \* broker: open trades
    placed,      \* broker: orders submitted by the current request, in order
    nextId,      \* broker: next order id
    req,         \* number of the current request (the same webhook re-sent)
    firstRun,    \* status of each order in the previous request
    faults,      \* broker events so far: failures of broker calls
    fills        \* broker events so far: fills of open orders

vars == <<orders, pc, i, attempt, slept, results, response, connected, calls,
          positions, openOrders, placed, nextId, req, firstRun, faults,
          fills>>

----------------------------------------------------------------------------
(* Bounds of the model *)

MaxOrders == 3
MaxRequests == 2
MaxEvents == 1
MaxResendOrders == 2
MaxBuilderOrders == 2
MaxSymbolOrders == 2
MaxIntentOrders == 2

----------------------------------------------------------------------------
(* Values *)

None == <<>>
Some(x) == <<x>>
Absent == "<absent>"

\* Python truthiness of an optional number: None and 0 are falsy.
TruthyNum(v) == v # None /\ v[1] # 0
\* Python truthiness of an optional string: None and "" are falsy (both "").
TruthyStr(s) == s # ""

Abs(n) == IF n < 0 THEN -n ELSE n

Order(sym, ot, act, qty, price, aux, pos) ==
    [symbol |-> sym, order_type |-> ot, action |-> act, qty |-> qty,
     price |-> price, aux_price |-> aux, position |-> pos]

----------------------------------------------------------------------------
(* str.upper() *)

LowerLetters == <<"a","b","c","d","e","f","g","h","i","j","k","l","m",
                  "n","o","p","q","r","s","t","u","v","w","x","y","z">>
UpperLetters == <<"A","B","C","D","E","F","G","H","I","J","K","L","M",
                  "N","O","P","Q","R","S","T","U","V","W","X","Y","Z">>

LowerSet == {LowerLetters[n] : n \in 1..26}
UpperOf == [c \in LowerSet |-> UpperLetters[CHOOSE n \in 1..26 : LowerLetters[n] = c]]

UpperChar(c) == IF c \in LowerSet THEN UpperOf[c] ELSE c

\* symbol.upper() on a symbol given as a sequence of characters
UpperSym(s) == [n \in 1..Len(s) |-> UpperChar(s[n])]

\* order_type.upper() / action.upper() on the strings the model draws
UpperStr(t) ==
    CASE t = "mkt" -> "MKT"
      [] t = "stp" -> "STP"
      [] t = "Stop" -> "STOP"
      [] t = "lmt" -> "LMT"
      [] t = "foo" -> "FOO"
      [] t = "buy" -> "BUY"
      [] t = "sell" -> "SELL"
      [] OTHER -> t

----------------------------------------------------------------------------
(* Conflict check of the batch, lines 64-87 *)

\* order_data.get("order_type", "MKT")
GetOrderType(od) == IF od.order_type = Absent THEN "MKT" ELSE od.order_type

AllowedCombinations ==
    { {"MKT", "STP"}, {"MKT", "STP_LMT"}, {"LMT", "STP"}, {"LMT", "STP_LMT"},
      {"MARKET", "STOP"}, {"MARKET", "STOP_LIMIT"}, {"LIMIT", "STOP"},
      {"LIMIT", "STOP_LIMIT"} }

\* One pass over the batch; contract_orders maps a symbol to the upper-cased
\* order type of its latest order.  FALSE when some order is rejected.
RECURSIVE ConflictScan(_, _, _)
ConflictScan(ords, n, contract_orders) ==
    IF n > Len(ords) THEN TRUE
    ELSE LET symbol == ords[n].symbol
             order_type == UpperStr(GetOrderType(ords[n]))
         IN  IF /\ symbol \in DOMAIN contract_orders
                /\ {contract_orders[symbol], order_type} \notin AllowedCombinations
             THEN FALSE
             ELSE ConflictScan(ords, n + 1,
                    [s \in (DOMAIN contract_orders) \cup {symbol} |->
                        IF s = symbol THEN order_type ELSE contract_orders[s]])

NoConflict(ords) == ConflictScan(ords, 1, <<>>)

----------------------------------------------------------------------------
(* Per-order stages, lines 97-315 *)

ValidOrderTypes ==
    {"MKT", "MARKET", "LMT", "LIMIT", "STP", "STOP", "STP_LMT", "STOP_LIMIT"}

\* lines 106-110: an unrecognized order type becomes "MKT"
ValidatedOrderType(ot) == IF UpperStr(ot) \in ValidOrderTypes THEN ot ELSE "MKT"

\* str.split(sep)
RECURSIVE Split(_, _)
Split(s, sep) ==
    IF \E n \in 1..Len(s) : s[n] = sep
    THEN LET n == CHOOSE n \in 1..Len(s) :
                      s[n] = sep /\ \A m \in 1..(n - 1) : s[m] # sep
         IN  <<SubSeq(s, 1, n - 1)>> \o Split(SubSeq(s, n + 1, Len(s)), sep)
    ELSE <<s>>

MonthNames == << <<"J","A","N">>, <<"F","E","B">>, <<"M","A","R">>,
                 <<"A","P","R">>, <<"M","A","Y">>, <<"J","U","N">>,
                 <<"J","U","L">>, <<"A","U","G">>, <<"S","E","P">>,
                 <<"O","C","T">>, <<"N","O","V">>, <<"D","E","C">> >>
MonthNumbers == << <<"0","1">>, <<"0","2">>, <<"0","3">>, <<"0","4">>,
                   <<"0","5">>, <<"0","6">>, <<"0","7">>, <<"0","8">>,
                   <<"0","9">>, <<"1","0">>, <<"1","1">>, <<"1","2">> >>
InMonthMap(m) == \E n \in 1..12 : MonthNames[n] = m
MonthMap(m) == MonthNumbers[CHOOSE n \in 1..12 : MonthNames[n] = m]

\* lines 131-168: the contract built from the symbol, or the parse error
ParseSymbol(symbol) ==
    LET up == UpperSym(symbol)
    IN  IF Len(up) >= 2 /\ up[1] = "V" /\ up[2] = "X"
        THEN LET parts == Split(up, "-")
             IN  IF Len(parts) # 3
                 THEN [ok |-> FALSE, error |-> "bad_symbol_format"]
                 ELSE LET ticker == parts[1]
                          month_name == UpperSym(parts[2])
                          year_short == parts[3]
                      IN  IF ~InMonthMap(month_name)
                          THEN [ok |-> FALSE, error |-> "bad_month"]
                          ELSE [ok |-> TRUE,
                                contract |->
                                  [secType |-> "FUT", symbol |-> ticker,
                                   lastTradeDateOrContractMonth |->
                                     <<"2","0">> \o year_short \o MonthMap(month_name),
                                   exchange |-> "CFE", currency |-> "USD"]]
        ELSE [ok |-> TRUE,
              contract |-> [secType |-> "STK", symbol |-> up,
                            lastTradeDateOrContractMonth |-> <<>>,
                            exchange |-> "SMART", currency |-> "USD"]]

\* The pair the code matches positions and open orders on (lines 187-188,
\* 197-198): contract.symbol and contract.lastTradeDateOrContractMonth.
KeyOf(contract) == <<contract.symbol, contract.lastTradeDateOrContractMonth>>

\* lines 183-190: the position of the matching entry of ib.positions(), else 0
CurrentPosition(pos, key) == IF key \in DOMAIN pos THEN pos[key] ELSE 0

\* Mutant of PendingPositionChange: open orders are left out of the sizing.
PendingPositionChange_Ignored(opn, key) == 0

\* Mutant of PendingPositionChange: open SELL orders are added, not subtracted.
RECURSIVE PendingPositionChange_Unsigned(_, _)
PendingPositionChange_Unsigned(opn, key) ==
    IF opn = {} THEN 0
    ELSE LET trade == CHOOSE t \in opn : TRUE
             rest == PendingPositionChange_Unsigned(opn \ {trade}, key)
         IN  IF trade.key = key THEN rest + trade.totalQuantity ELSE rest

\* lines 193-203: signed sum of the matching open orders
RECURSIVE PendingPositionChange(_, _)
PendingPositionChange(opn, key) ==
    IF opn = {} THEN 0
    ELSE LET trade == CHOOSE t \in opn : TRUE
             rest == PendingPositionChange(opn \ {trade}, key)
         IN  IF trade.key = key
             THEN IF trade.action = "BUY" THEN rest + trade.totalQuantity
                  ELSE IF trade.action = "SELL" THEN rest - trade.totalQuantity
                  ELSE rest
             ELSE rest

\* lines 229-234
ReconciledAction(position_difference) ==
    IF position_difference > 0 THEN "BUY" ELSE "SELL"
ReconciledQty(position_difference) == Some(Abs(position_difference))

\* lines 245-282: the typed order, or the builder's error
BuildOrder(order_type, action, quantity, price, aux_price) ==
    IF order_type \in {"MKT", "MARKET"}
    THEN [ok |-> TRUE,
          order |-> [orderType |-> "MKT", action |-> action,
                     totalQuantity |-> quantity, lmtPrice |-> None,
                     auxPrice |-> None]]
    ELSE IF order_type \in {"LMT", "LIMIT"}
    THEN IF ~TruthyNum(price)
         THEN [ok |-> FALSE, error |-> "price_required"]
         ELSE [ok |-> TRUE,
               order |-> [orderType |-> "LMT", action |-> action,
                          totalQuantity |-> quantity, lmtPrice |-> price,
                          auxPrice |-> None]]
    ELSE IF order_type \in {"STP", "STOP"}
    THEN LET stop_price == IF TruthyNum(aux_price) THEN aux_price ELSE price
         IN  IF ~TruthyNum(stop_price)
             THEN [ok |-> FALSE, error |-> "stop_price_required"]
             ELSE [ok |-> TRUE,
                   order |-> [orderType |-> "STP", action |-> action,
                              totalQuantity |-> quantity, lmtPrice |-> None,
                              auxPrice |-> stop_price]]
    ELSE IF order_type \in {"STP_LMT", "STOP_LIMIT"}
    THEN IF ~TruthyNum(price) \/ ~TruthyNum(aux_price)
         THEN [ok |-> FALSE, error |-> "both_prices_required"]
         ELSE [ok |-> TRUE,
               order |-> [orderType |-> "STP LMT", action |-> action,
                          totalQuantity |-> quantity, lmtPrice |-> price,
                          auxPrice |-> aux_price]]
    ELSE [ok |-> FALSE, error |-> "unsupported_type"]

\* Mutant of TargetPosition: a complete action/qty pair wins over 'position'.
TargetPosition_IntentFirst(od) ==
    IF TruthyStr(od.action) /\ TruthyNum(od.qty) THEN None ELSE od.position

\* line 104: target_position = order_data.get("position")
TargetPosition(od) == od.position

\* Mutant of AtTarget: an order is also skipped when above its target.
AtTarget_NotBelow(position_difference) == position_difference <= 0

\* line 211
AtTarget(position_difference) == position_difference = 0

\* The entries appended to `results`
ErrorResult(k, msg) == [order |-> k, status |-> "error", message |-> msg]

SkippedResult(k, symbol, cur, pend, eff, target) ==
    [order |-> k, status |-> "skipped", message |-> "at_target",
     details |-> [symbol |-> symbol, current_position |-> cur,
                  pending_position_change |-> pend,
                  effective_position |-> eff, target_position |-> target,
                  difference |-> 0]]

\* recon is None for an action-based order ("N/A" in the response) and
\* <<cur, pend, eff, target>> for a position-based one.
SuccessResult(k, symbol, order, order_type, price, aux_price, id, recon) ==
    [order |-> k, status |-> "success", message |-> "placed",
     details |-> [symbol |-> symbol, action |-> order.action,
                  quantity |-> order.totalQuantity, order_type |-> order_type,
                  price |-> IF TruthyNum(price) THEN price ELSE None,
                  aux_price |-> IF TruthyNum(aux_price) THEN aux_price ELSE None,
                  trade_id |-> id, position_based |-> recon # None,
                  reconciliation |-> recon]]

\* What one iteration of the loop does: the result it appends, the order it
\* hands to ib.placeOrder (at most one) and the broker calls it makes.
Outcome(r, place, cs) == [result |-> r, place |-> place, calls |-> cs]

\* lines 238-315: action and qty are settled; build, place, wait, report
SubmitStage(od, k, key, id, env, order_type, action, qty, recon, cs) ==
    IF ~TruthyStr(action) \/ ~TruthyNum(qty)
    THEN Outcome(ErrorResult(k, "no_action_qty"), <<>>, cs)
    ELSE LET ot == UpperStr(order_type)
             built == BuildOrder(ot, UpperStr(action), qty[1], od.price,
                                 od.aux_price)
         IN  IF ~built.ok
             THEN Outcome(ErrorResult(k, built.error), <<>>, cs)
             ELSE IF env = "place_raise"
             THEN Outcome(ErrorResult(k, "exception"), <<>>,
                          cs \o <<"placeOrder">>)
             ELSE LET trade == [k |-> k, id |-> id, key |-> key,
                                order |-> built.order]
                  IN  IF env = "sleep_raise"
                      THEN Outcome(ErrorResult(k, "exception"), <<trade>>,
                                   cs \o <<"placeOrder", "sleep">>)
                      ELSE Outcome(SuccessResult(k, od.symbol, built.order, ot,
                                                 od.price, od.aux_price, id,
                                                 recon),
                                   <<trade>>, cs \o <<"placeOrder", "sleep">>)

\* lines 180-236: the position-based sizing of a qualified contract
ReconcileStage(od, k, key, pos, opn, id, env, order_type, cs) ==
    IF env = "positions_raise"
    THEN Outcome(ErrorResult(k, "exception"), <<>>, cs \o <<"positions">>)
    ELSE IF env = "openorders_raise"
    THEN Outcome(ErrorResult(k, "exception"), <<>>,
                 cs \o <<"positions", "openOrders">>)
    ELSE LET target_position == TargetPosition(od)[1]
             current_position == CurrentPosition(pos, key)
             pending_position_change == PendingPositionChange(opn, key)
             effective_current_position ==
                 current_position + pending_position_change
             position_difference ==
                 target_position - effective_current_position
             cs2 == cs \o <<"positions", "openOrders">>
         IN  IF AtTarget(position_difference)
             THEN Outcome(SkippedResult(k, od.symbol, current_position,
                                        pending_position_change,
                                        effective_current_position,
                                        target_position),
                          <<>>, cs2)
             ELSE SubmitStage(od, k, key, id, env, order_type,
                              ReconciledAction(position_difference),
                              ReconciledQty(position_difference),
                              <<current_position, pending_position_change,
                                effective_current_position, target_position>>,
                              cs2)

\* Mutant of IntentMissing: the order's intent is not checked up front.
IntentMissing_Unchecked(target_position, action, qty) == FALSE

\* line 125: neither a target position nor a complete action/qty pair
IntentMissing(target_position, action, qty) ==
    target_position = None /\ (~TruthyStr(action) \/ ~TruthyNum(qty))

\* lines 96-320: one iteration of the per-order loop on order k, against the
\* broker's positions pos and open orders opn; env is what the broker does.
OrderOutcome(od, k, pos, opn, id, env) ==
    LET order_type == ValidatedOrderType(GetOrderType(od))
        discard == TargetPosition(od) # None
                     /\ (TruthyStr(od.action) \/ TruthyNum(od.qty))
        action == IF discard THEN "" ELSE od.action
        qty == IF discard THEN None ELSE od.qty
    IN  IF od.symbol = <<>>
        THEN Outcome(ErrorResult(k, "missing_symbol"), <<>>, <<>>)
        ELSE IF IntentMissing(TargetPosition(od), action, qty)
        THEN Outcome(ErrorResult(k, "missing_intent"), <<>>, <<>>)
        ELSE LET parsed == ParseSymbol(od.symbol)
             IN  IF ~parsed.ok
                 THEN Outcome(ErrorResult(k, parsed.error), <<>>, <<>>)
                 ELSE LET key == KeyOf(parsed.contract)
                          cs == <<"qualifyContracts">>
                      IN  IF env = "qualify_raise"
                          THEN Outcome(ErrorResult(k, "exception"), <<>>, cs)
                          ELSE IF env = "qualify_empty"
                          THEN Outcome(ErrorResult(k, "no_contract"), <<>>, cs)
                          ELSE IF TargetPosition(od) # None
                          THEN ReconcileStage(od, k, key, pos, opn, id, env,
                                              order_type, cs)
                          ELSE SubmitStage(od, k, key, id, env, order_type,
                                           action, qty, None, cs)

\* Mutant of RecordResult: a skipped order is not reported.
RecordResult_DropSkipped(rs, r) ==
    IF r.status = "skipped" THEN rs ELSE Append(rs, r)

\* results.append(...) at the end of an iteration
RecordResult(rs, r) == Append(rs, r)

\* Mutant of NextOrder: the loop is left at the first failing order.
NextOrder_BreakOnError(n, r, total) ==
    IF r.status = "error" THEN total + 1 ELSE n + 1

\* `continue` / falling off the end of the loop body: the loop goes on to the
\* next of the `total` orders whatever result r the iteration appended
NextOrder(n, r, total) == n + 1

----------------------------------------------------------------------------
(* connect_to_ib, lines 24-47 *)

Retries == 3

----------------------------------------------------------------------------
(* The handler and the broker *)

NoResponse ==
    [http |-> 0, status |-> "none", message |-> "none", has_results |-> FALSE,
     total_orders |-> 0, successful_orders |-> 0, failed_orders |-> 0]

\* A response without 'results': lines 59-62, 82-85, 340
ErrorResponse(http, msg) ==
    [http |-> http, status |-> "error", message |-> msg,
     has_results |-> FALSE, total_orders |-> 0, successful_orders |-> 0,
     failed_orders |-> 0]

\* Mutant of BatchResponse: a batch without errors is reported as a success.
BatchResponse_SkippedSucceeds(rs) ==
    LET successful_orders ==
            Cardinality({n \in 1..Len(rs) : rs[n].status = "success"})
        failed_orders == Len(rs) - successful_orders
        clean == \A n \in 1..Len(rs) : rs[n].status # "error"
    IN  [http |-> IF successful_orders > 0 THEN 200 ELSE 400,
         status |-> IF clean THEN "success" ELSE "error",
         message |-> "processed", has_results |-> TRUE,
         total_orders |-> Len(rs), successful_orders |-> successful_orders,
         failed_orders |-> failed_orders]

\* Mutant of BatchResponse: only 'error' results are counted as failed.
BatchResponse_SkippedNotFailed(rs) ==
    LET successful_orders ==
            Cardinality({n \in 1..Len(rs) : rs[n].status = "success"})
        failed_orders ==
            Cardinality({n \in 1..Len(rs) : rs[n].status = "error"})
    IN  [http |-> IF successful_orders > 0 THEN 200 ELSE 400,
         status |-> IF successful_orders > 0 THEN "success" ELSE "error",
         message |-> "processed", has_results |-> TRUE,
         total_orders |-> Len(rs), successful_orders |-> successful_orders,
         failed_orders |-> failed_orders]

\* lines 322-335
BatchResponse(rs) ==
    LET successful_orders ==
            Cardinality({n \in 1..Len(rs) : rs[n].status = "success"})
        failed_orders == Len(rs) - successful_orders
    IN  [http |-> IF successful_orders > 0 THEN 200 ELSE 400,
         status |-> IF successful_orders > 0 THEN "success" ELSE "error",
         message |-> "processed", has_results |-> TRUE,
         total_orders |-> Len(rs), successful_orders |-> successful_orders,
         failed_orders |-> failed_orders]

EnvChoices == {"ok", "qualify_empty", "qualify_raise", "positions_raise",
               "openorders_raise", "place_raise", "sleep_raise"}

\* The broker's record of an order handed to ib.placeOrder
OpenTrade(t) == [id |-> t.id, key |-> t.key, action |-> t.order.action,
                 totalQuantity |-> t.order.totalQuantity]

\* Mutant of AfterPlace: a submitted order is not among the open orders.
AfterPlace_NotOpen(opn, place) == opn

\* line 285: the broker's open orders after ib.placeOrder of the orders of
\* `place`
AfterPlace(opn, place) ==
    opn \cup {OpenTrade(place[n]) : n \in 1..Len(place)}

\* Mutant of Validate: the session is opened before the batch is validated.
Validate_ConnectFirst ==
    /\ pc = "start"
    /\ calls' = Append(calls, <<"connect", 0>>)
    /\ connected' = TRUE
    /\ IF orders = <<>>
       THEN /\ response' = ErrorResponse(400, "missing_orders")
            /\ pc' = "done"
       ELSE IF ~NoConflict(orders)
       THEN /\ response' = ErrorResponse(400, "conflict")
            /\ pc' = "done"
       ELSE /\ response' = response
            /\ pc' = "connect"
    /\ UNCHANGED <<orders, i, attempt, slept, results, positions, openOrders, placed,
                   nextId, req, firstRun, faults, fills>>

\* lines 53-87: the batch is validated before anything else is done
Validate ==
    /\ pc = "start"
    /\ IF orders = <<>>
       THEN /\ response' = ErrorResponse(400, "missing_orders")
            /\ pc' = "done"
       ELSE IF ~NoConflict(orders)
       THEN /\ response' = ErrorResponse(400, "conflict")
            /\ pc' = "done"
       ELSE /\ response' = response
            /\ pc' = "connect"
    /\ UNCHANGED <<orders, i, attempt, slept, results, connected, calls, positions,
                   openOrders, placed, nextId, req, firstRun, faults, fills>>

\* lines 34-39 with line 93: an attempt succeeds and the loop is entered
ConnectOk ==
    /\ pc = "connect"
    /\ connected' = TRUE
    /\ calls' = Append(calls, <<"connect", 0>>)
    /\ attempt' = 0
    /\ slept' = 0
    /\ i' = 1
    /\ pc' = "loop"
    /\ UNCHANGED <<orders, results, response, positions, openOrders, placed,
                   nextId, req, firstRun, faults, fills>>

\* Mutant of ConnectFail: the delay is also slept after the last attempt.
ConnectFail_SleepAfterLast ==
    /\ pc = "connect"
    /\ slept' = slept + 1
    /\ IF attempt < Retries - 1
       THEN /\ attempt' = attempt + 1
            /\ UNCHANGED <<pc, response>>
       ELSE /\ attempt' = attempt
            /\ response' = ErrorResponse(500, "connection_error")
            /\ pc' = "done"
    /\ UNCHANGED <<orders, i, results, connected, calls, positions, openOrders,
                   placed, nextId, req, firstRun, faults, fills>>

\* lines 40-46 with lines 337-345: an attempt fails.  A failure before the
\* last attempt sleeps `delay` and goes on to the next attempt; the last
\* failure is raised without a sleep, answered with 500, and finds `ib`
\* still None in the finally block.  The locals of a call that returned are
\* dropped (ConnectOk); those of the call that raised stay as it left them.
ConnectFail ==
    /\ pc = "connect"
    /\ IF attempt < Retries - 1
       THEN /\ attempt' = attempt + 1
            /\ slept' = slept + 1
            /\ UNCHANGED <<pc, response>>
       ELSE /\ UNCHANGED <<attempt, slept>>
            /\ response' = ErrorResponse(500, "connection_error")
            /\ pc' = "done"
    /\ UNCHANGED <<orders, i, results, connected, calls, positions, openOrders,
                   placed, nextId, req, firstRun, faults, fills>>

\* lines 95-320: one iteration of the loop.  A broker call of a lost session
\* raises; a failure is injected only where the iteration makes that call.
ProcessOrder ==
    /\ pc = "loop"
    /\ i <= Len(orders)
    /\ \E env \in EnvChoices :
       \E ok \in {OrderOutcome(orders[i], i, positions, openOrders, nextId, "ok")} :
       \E out \in {IF connected /\ env = "ok" THEN ok
                   ELSE OrderOutcome(orders[i], i, positions, openOrders, nextId,
                                     IF connected THEN env ELSE "qualify_raise")} :
         /\ env = "ok" \/ (connected /\ faults + fills < MaxEvents /\ out # ok)
         /\ results' = RecordResult(results, out.result)
         /\ i' = NextOrder(i, out.result, Len(orders))
         /\ placed' = placed \o out.place
         /\ openOrders' = AfterPlace(openOrders, out.place)
         /\ nextId' = nextId + Len(out.place)
         /\ calls' = calls \o [n \in 1..Len(out.calls) |-> <<out.calls[n], i>>]
         /\ faults' = faults + (IF env = "ok" THEN 0 ELSE 1)
    /\ UNCHANGED <<orders, pc, attempt, slept, response, connected, positions, req,
                   firstRun, fills>>

\* The session is lost while the batch is being processed.
LoseSession ==
    /\ pc = "loop"
    /\ connected
    /\ faults + fills < MaxEvents
    /\ connected' = FALSE
    /\ faults' = faults + 1
    /\ UNCHANGED <<orders, pc, i, attempt, slept, results, response, calls, positions,
                   openOrders, placed, nextId, req, firstRun, fills>>

\* Mutant of Finish: the summary is returned and the session is left open.
Finish_KeepSession ==
    /\ pc = "loop"
    /\ i > Len(orders)
    /\ response' = BatchResponse(results)
    /\ pc' = "done"
    /\ UNCHANGED <<orders, i, attempt, slept, results, connected, calls,
                   positions, openOrders, placed, nextId, req, firstRun,
                   faults, fills>>

\* lines 322-335 and 342-345: the summary is returned and the session, if
\* still connected, is disconnected
Finish ==
    /\ pc = "loop"
    /\ i > Len(orders)
    /\ response' = BatchResponse(results)
    /\ calls' = IF connected THEN Append(calls, <<"disconnect", 0>>) ELSE calls
    /\ connected' = FALSE
    /\ pc' = "done"
    /\ UNCHANGED <<orders, i, attempt, slept, results, positions, openOrders, placed,
                   nextId, req, firstRun, faults, fills>>

\* The broker fills an open order: it leaves the open orders and is added to
\* the settled position of its contract.  (A fill before the loop starts is
\* seen by the handler exactly as one at the start of the loop.)
Fill ==
    /\ pc \in {"loop", "done"}
    /\ faults + fills < MaxEvents
    /\ fills' = fills + 1
    /\ \E t \in openOrders :
         LET signed == IF t.action = "BUY" THEN t.totalQuantity
                       ELSE -t.totalQuantity
         IN  /\ openOrders' = openOrders \ {t}
             /\ positions' =
                    [key \in (DOMAIN positions) \cup {t.key} |->
                        IF key = t.key
                        THEN CurrentPosition(positions, key) + signed
                        ELSE positions[key]]
    /\ UNCHANGED <<orders, pc, i, attempt, slept, results, response, connected, calls,
                   placed, nextId, req, firstRun, faults>>

\* The same webhook is sent again after a response that reported on its
\* orders.
Resend ==
    /\ pc = "done"
    /\ response.has_results
    /\ req < MaxRequests
    /\ req' = req + 1
    /\ firstRun' = [n \in 1..Len(results) |-> results[n].status]
    /\ pc' = "start"
    /\ i' = 0
    /\ results' = <<>>
    /\ placed' = <<>>
    /\ calls' = <<>>
    /\ response' = NoResponse
    /\ UNCHANGED <<orders, attempt, slept, connected, positions, openOrders, nextId,
                   faults, fills>>

\* One request
Next ==
    \/ Validate
    \/ ConnectOk
    \/ ConnectFail
    \/ ProcessOrder
    \/ LoseSession
    \/ Finish
    \/ Fill

\* The same request sent up to MaxRequests times
NextResend ==
    \/ Validate
    \/ ConnectOk
    \/ ConnectFail
    \/ ProcessOrder
    \/ LoseSession
    \/ Finish
    \/ Fill
    \/ Resend

----------------------------------------------------------------------------
(* Requests and broker states the specifications start from *)

SymVX == <<"V","X","-","O","C","T","-","2","5">>
SymVXMixed == <<"V","X","-","O","c","t","-","2","5">>
SymVXM == <<"V","X","M","-","O","C","T","-","2","6">>
SymAAPL == <<"A","A","P","L">>
SymBadMonth == <<"V","X","-","F","O","O","-","2","5">>
SymTwoParts == <<"V","X","-","O","C","T">>

KeyVX == << <<"V","X">>, <<"2","0","2","5","1","0">> >>
KeyAAPL == << <<"A","A","P","L">>, <<>> >>

\* All batches of 1..MaxOrders orders drawn from pool, and the empty batch
BatchesUpTo(pool, max) == UNION {[1..n -> pool] : n \in 0..max}
Batches(pool) == BatchesUpTo(pool, MaxOrders)

InitHandler ==
    /\ pc = "start"
    /\ i = 0
    /\ attempt = 0
    /\ slept = 0
    /\ results = <<>>
    /\ response = NoResponse
    /\ connected = FALSE
    /\ calls = <<>>
    /\ placed = <<>>
    /\ nextId = 10
    /\ req = 1
    /\ firstRun = <<>>
    /\ faults = 0
    /\ fills = 0

\* The broker state the batches below are run against: a settled position
\* of 3 on the VX contract and one open order on it
HeldVX == [key \in {KeyVX} |-> 3]
OpenSellVX == [id |-> 1, key |-> KeyVX, action |-> "SELL", totalQuantity |-> 1]
OpenBuyVX == [id |-> 2, key |-> KeyVX, action |-> "BUY", totalQuantity |-> 2]

BuyVX == Order(SymVX, "MKT", "BUY", Some(1), None, None, None)
SellAAPL == Order(SymAAPL, "MARKET", "sell", Some(2), None, None, None)
TargetVX == Order(SymVXMixed, Absent, "", None, None, None, Some(2))
NoSymbol == Order(<<>>, "MKT", "BUY", Some(1), None, None, None)
BadMonth == Order(SymBadMonth, "MKT", "BUY", Some(1), None, None, None)
LimitNoPrice == Order(SymAAPL, "LMT", "BUY", Some(1), None, None, None)

\* Orders that stop at each stage of the loop: field validation, symbol
\* parsing, reconciliation (skipped or sized), order building, submission
MixedPool == {BuyVX, SellAAPL, TargetVX, NoSymbol, BadMonth, LimitNoPrice}

Init ==
    /\ InitHandler
    /\ orders \in Batches(MixedPool)
    /\ positions = HeldVX
    /\ openOrders = {OpenSellVX}

Spec == Init /\ [][Next]_vars

\* Batches for the conflict check: orders on one symbol in every spelling of
\* every order type, each with the prices its type needs, and one order on
\* another symbol
ConflictTypes == ValidOrderTypes \cup {"stp", "FOO", Absent}
ConflictPool ==
    {Order(SymVX, t, "BUY", Some(1), Some(5), Some(4), None) : t \in ConflictTypes}
        \cup {SellAAPL}

InitConflict ==
    /\ InitHandler
    /\ orders \in Batches(ConflictPool)
    /\ positions = <<>>
    /\ openOrders = {}

SpecConflict == InitConflict /\ [][Next]_vars

\* Batches of position-based orders, run against two broker states
OpenSellAAPL == [id |-> 3, key |-> KeyAAPL, action |-> "SELL", totalQuantity |-> 1]

ToOneVX == Order(SymVX, "MKT", "", None, None, None, Some(1))
ToThreeVX == Order(SymVXMixed, "STP", "BUY", Some(1), None, Some(4), Some(3))
FlatAAPL == Order(SymAAPL, "LMT", "SELL", None, Some(5), None, Some(0))

ReconPool == {ToOneVX, ToThreeVX, FlatAAPL}

InitRecon ==
    /\ InitHandler
    /\ orders \in Batches(ReconPool)
    /\ \/ positions = HeldVX /\ openOrders = {}
       \/ /\ positions = [key \in {KeyVX, KeyAAPL} |-> IF key = KeyVX THEN 3 ELSE -2]
          /\ openOrders = {OpenBuyVX, OpenSellAAPL}

SpecRecon == InitRecon /\ [][Next]_vars

\* Batches for the same webhook sent again: position-based orders on one
\* contract with equal and with different targets, and an action-based
\* order on the same contract under another spelling of its symbol
StopFlatVX == Order(SymVX, "STP", "", None, None, Some(4), Some(0))
StopOneVX == Order(SymVX, "STP", "", None, None, Some(4), Some(1))
BuyVXMixed == Order(SymVXMixed, "MKT", "BUY", Some(1), None, None, None)

ResendPool == {ToOneVX, StopFlatVX, StopOneVX, BuyVXMixed}

InitResend ==
    /\ InitHandler
    /\ orders \in BatchesUpTo(ResendPool, MaxResendOrders)
    /\ positions = HeldVX
    /\ openOrders = {}

SpecResend == InitResend /\ [][NextResend]_vars

\* Batches for the order builder: every order type with every combination of
\* an absent, a zero and a positive price and stop price
BuilderTypes == {"MKT", "LIMIT", "STP", "STOP_LIMIT"}
PriceInputs == {None, Some(0), Some(5)}
AuxPriceInputs == {None, Some(0), Some(4)}
BuilderPool ==
    {Order(SymAAPL, t, "BUY", Some(1), p, a, None) :
        t \in BuilderTypes, p \in PriceInputs, a \in AuxPriceInputs}

InitBuilder ==
    /\ InitHandler
    /\ orders \in BatchesUpTo(BuilderPool, MaxBuilderOrders)
    /\ positions = <<>>
    /\ openOrders = {}

SpecBuilder == InitBuilder /\ [][Next]_vars

\* Batches for the symbol parser: market orders on derivative symbols in
\* several letter cases, with two-digit and one-digit years, with a wrong
\* month and a wrong field count, and on a stock
SymVXLower == <<"v","x","-","n","o","v","-","2","5">>
SymOneDigitYear == <<"V","X","-","O","C","T","-","5">>
SymPaddedYear == <<"V","X","-","O","C","T","-","0","5">>
SymbolInputs == {SymVX, SymVXMixed, SymVXM, SymVXLower, SymOneDigitYear,
                 SymPaddedYear, SymBadMonth, SymTwoParts, SymAAPL}
SymbolPool ==
    {Order(sym, "MKT", "BUY", Some(1), None, None, None) : sym \in SymbolInputs}

InitSymbol ==
    /\ InitHandler
    /\ orders \in BatchesUpTo(SymbolPool, MaxSymbolOrders)
    /\ positions = <<>>
    /\ openOrders = {}

SpecSymbol == InitSymbol /\ [][Next]_vars

\* Batches for the snapshots read by position-based orders: two
\* position-based orders and an action-based one, all on one contract
CachePool == {ToOneVX, ToThreeVX, BuyVXMixed}

InitCache ==
    /\ InitHandler
    /\ orders \in Batches(CachePool)
    /\ positions = HeldVX
    /\ openOrders \in {{}, {OpenSellVX}}

SpecCache == InitCache /\ [][Next]_vars

\* Batches for the intent validation: market orders with and without a
\* symbol, an action, a quantity (absent, zero, positive) and a target
\* position (absent, zero)
IntentSymbols == {<<>>, SymVX, SymAAPL}
IntentPool ==
    {Order(sym, "MKT", act, qty, None, None, pos) :
        sym \in IntentSymbols, act \in {"", "BUY"},
        qty \in {None, Some(0), Some(1)}, pos \in {None, Some(0)}}

InitIntent ==
    /\ InitHandler
    /\ orders \in BatchesUpTo(IntentPool, MaxIntentOrders)
    /\ positions = HeldVX
    /\ openOrders = {}

SpecIntent == InitIntent /\ [][Next]_vars

\* One request whose connection attempts each come to an end: ib.connect
\* returns or raises within its timeout, and time.sleep(delay) returns
SpecRetry == Init /\ [][Next]_vars /\ WF_vars(ConnectOk \/ ConnectFail)

----------------------------------------------------------------------------
(* Properties of one request *)

\* The request got its session: connect_to_ib returned.
SessionOpened == \E n \in 1..Len(calls) : calls[n][1] = "connect"

\* The results list holds one entry per order 1..n, in input order.
Enumerates(rs, n) ==
    /\ Len(rs) = n
    /\ \A k \in 1..n : rs[k].order = k

Statuses(rs) == {rs[k].status : k \in 1..Len(rs)}
PlacedFor(k) == {n \in 1..Len(placed) : placed[n].k = k}

\* C1 as stated: every non-empty, conflict-free request is answered with
\* exactly one result per order, in input order.
C1_EveryValidBatchEnumerated ==
    (pc = "done" /\ orders # <<>> /\ NoConflict(orders))
        => /\ response.has_results
           /\ response.total_orders = Len(orders)
           /\ Enumerates(results, Len(orders))

\* C1 amended: every non-empty, conflict-free request whose broker session
\* was opened is answered with exactly one result per order, in input order,
\* whatever stage each order stopped at; while the loop runs the results so
\* far are those of the orders before the current one.
C1_OneResultPerOrder ==
    /\ pc = "loop" => Enumerates(results, i - 1)
    /\ (pc = "done" /\ orders # <<>> /\ NoConflict(orders) /\ SessionOpened)
           => /\ response.has_results
              /\ response.total_orders = Len(orders)
              /\ Enumerates(results, Len(orders))

\* C1 witness: a processed batch of three whose orders ended in the three
\* different ways.
C1_Witness ==
    /\ pc = "done"
    /\ response.has_results
    /\ Len(orders) = 3
    /\ Statuses(results) = {"success", "skipped", "error"}
    /\ Enumerates(results, 3)

\* C2: an iteration that ends in an error appends that one error result for
\* the current order, leaves the earlier results alone and moves on to the
\* next order with the loop still running; and a batch of three valid
\* action/position orders of which only the second fails qualification ends
\* with orders 1 and 3 submitted, 2 successful, 1 failed, HTTP 200.
C2_ErrorStep ==
    (/\ pc = "loop"
     /\ results' # results
     /\ results'[Len(results')].status = "error")
        => /\ pc' = "loop"
           /\ i' = i + 1
           /\ results' = Append(results, results'[Len(results')])
           /\ results'[Len(results')].order = i
           /\ connected' = connected

OnlySecondFailsQualification ==
    /\ pc = "done"
    /\ response.has_results
    /\ Len(orders) = 3
    /\ \A k \in 1..3 : orders[k] \in {BuyVX, SellAAPL, TargetVX}
    /\ faults = 1
    /\ Len(calls) > 0 /\ calls[Len(calls)][1] = "disconnect"
    /\ Len(results) >= 2
    /\ results[2].status = "error"
    /\ results[2].message = "no_contract"

C2_Example ==
    OnlySecondFailsQualification
        => /\ Len(results) = 3
           /\ results[1].status # "error"
           /\ results[3].status # "error"
           /\ \A k \in {1, 3} :
                results[k].status = "success" <=> Cardinality(PlacedFor(k)) = 1
           /\ PlacedFor(2) = {}
           /\ response.failed_orders =
                1 + Cardinality({k \in {1, 3} : results[k].status = "skipped"})
           /\ response.successful_orders + response.failed_orders = 3
           /\ response.http = IF response.successful_orders > 0 THEN 200 ELSE 400

C2_FailureIsolated == []C2_Example /\ [][C2_ErrorStep]_vars

\* C2 witness: the batch of the example, orders 1 and 3 submitted.
C2_Witness ==
    /\ OnlySecondFailsQualification
    /\ results[1].status = "success"
    /\ results[3].status = "success"
    /\ Len(placed) = 2
    /\ response.successful_orders = 2
    /\ response.failed_orders = 1
    /\ response.http = 200

\* C5: a request rejected before the loop (no orders, or a conflict) is
\* answered 400 / error without results, and makes no broker call at all:
\* no connection, no qualification, no submission.
C5_RejectedBatchTouchesNothing ==
    (orders = <<>> \/ ~NoConflict(orders))
        => /\ pc \in {"start", "done"}
           /\ calls = <<>>
           /\ placed = <<>>
           /\ results = <<>>
           /\ ~connected
           /\ pc = "done" => /\ response.http = 400
                             /\ response.status = "error"
                             /\ ~response.has_results

\* C5 witness: a rejected batch of three whose first two orders are valid
\* and conflict-free.
C5_Witness ==
    /\ pc = "done"
    /\ response.message = "conflict"
    /\ Len(orders) = 3
    /\ NoConflict(SubSeq(orders, 1, 2))
    /\ orders[1] = BuyVX
    /\ orders[2] = SellAAPL
    /\ calls = <<>>
    /\ placed = <<>>

----------------------------------------------------------------------------
(* Properties of the conflict check *)

\* The order type an order is processed as: the spellings of one type are
\* one type, and an unrecognized string is a market order (lines 106-110,
\* 250-282).
NormalizedType(od) ==
    LET t == UpperStr(GetOrderType(od))
    IN  IF t \in {"LMT", "LIMIT"} THEN "LIMIT"
        ELSE IF t \in {"STP", "STOP"} THEN "STOP"
        ELSE IF t \in {"STP_LMT", "STOP_LIMIT"} THEN "STOP_LIMIT"
        ELSE "MARKET"

PermittedSets == { {"MARKET", "STOP"}, {"MARKET", "STOP_LIMIT"},
                   {"LIMIT", "STOP"}, {"LIMIT", "STOP_LIMIT"} }

OrdersOn(sym) == {n \in 1..Len(orders) : orders[n].symbol = sym}
TypesOn(sym) == {NormalizedType(orders[n]) : n \in OrdersOn(sym)}
RepeatedSymbols ==
    {orders[n].symbol : n \in {m \in 1..Len(orders) : Cardinality(OrdersOn(orders[m].symbol)) > 1}}

\* The request got past the conflict check.
PassedConflictCheck ==
    /\ orders # <<>>
    /\ pc \in {"connect", "loop"} \/ (pc = "done" /\ response.message # "conflict")

\* C3: a request passes the conflict check only if, for every symbol that
\* appears more than once in it, the set of normalized order types of that
\* symbol's orders is one of the four permitted pairs.
C3_PassOnlyPermittedSets ==
    PassedConflictCheck => \A sym \in RepeatedSymbols : TypesOn(sym) \in PermittedSets

\* A request of recognized spellings in which no symbol appears more than
\* twice and every symbol appearing twice carries one of the permitted pairs
PermittedPairsOnly ==
    /\ orders # <<>>
    /\ \A n \in 1..Len(orders) : orders[n].order_type \in ValidOrderTypes
    /\ \A sym \in RepeatedSymbols :
         /\ Cardinality(OrdersOn(sym)) = 2
         /\ TypesOn(sym) \in PermittedSets

\* C4: a request in which a symbol appears exactly twice with one of the
\* four permitted pairs of normalized types passes the conflict check, for
\* every spelling of the two types and either order of the two orders.
C4_PermittedPairsPass ==
    (pc # "start" /\ PermittedPairsOnly) => response.message # "conflict"

----------------------------------------------------------------------------
(* Properties of the position reconciliation *)

RECURSIVE TotalQuantity(_)
TotalQuantity(trades) ==
    IF trades = {} THEN 0
    ELSE LET t == CHOOSE t \in trades : TRUE
         IN  t.totalQuantity + TotalQuantity(trades \ {t})

\* The broker's settled position on a contract key, 0 if it reports none
Settled(key) == IF key \in DOMAIN positions THEN positions[key] ELSE 0
\* The net quantity of the broker's open orders on a contract key
Pending(key) ==
    TotalQuantity({t \in openOrders : t.key = key /\ t.action = "BUY"})
        - TotalQuantity({t \in openOrders : t.key = key /\ t.action = "SELL"})
Delta(key, target) == target - (Settled(key) + Pending(key))

LastOf(seq) == seq[Len(seq)]

\* The loop is about to process a position-based order.
AtPositionOrder ==
    /\ pc = "loop"
    /\ i <= Len(orders)
    /\ orders[i].position # None

\* C6: when the iteration of a position-based order submits an order, that
\* order is sized against the broker state the iteration saw: with settled
\* and pending taken on the order's own contract key, delta = target -
\* (settled + pending) is nonzero, the action is BUY if delta > 0 and SELL if
\* delta < 0, and the quantity is |delta|.
C6_Step ==
    (AtPositionOrder /\ placed' # placed)
        => LET new == LastOf(placed')
               delta == Delta(new.key, orders[i].position[1])
           IN  /\ placed' = Append(placed, new)
               /\ new.k = i
               /\ delta # 0
               /\ new.order.action = IF delta > 0 THEN "BUY" ELSE "SELL"
               /\ new.order.totalQuantity = Abs(delta)

C6_SizedByDelta == [][C6_Step]_vars

\* C6 witness: settled 3, one open BUY of 2, target 1: SELL 4 is submitted.
C6_Witness ==
    \E k \in 1..Len(results) :
        /\ results[k].status = "success"
        /\ results[k].details.reconciliation = <<3, 2, 5, 1>>
        /\ results[k].details.action = "SELL"
        /\ results[k].details.quantity = 4
        /\ \E n \in PlacedFor(k) :
              /\ placed[n].order.action = "SELL"
              /\ placed[n].order.totalQuantity = 4

\* The contract key of the order the loop is at, when its symbol parses
KeyAt(n) == KeyOf(ParseSymbol(orders[n].symbol).contract)
BrokerFailure(r) ==
    r.status = "error" /\ r.message \in {"exception", "no_contract"}

\* C7: the iteration of a position-based order whose broker calls succeed
\* reports 'skipped' exactly when target = settled + pending; the skipped
\* result carries settled, pending, effective and target, and the iteration
\* submits nothing.
C7_Step ==
    (/\ AtPositionOrder
     /\ orders[i].symbol # <<>>
     /\ ParseSymbol(orders[i].symbol).ok
     /\ results' # results
     /\ ~BrokerFailure(LastOf(results')))
        => LET r == LastOf(results')
               target == orders[i].position[1]
               delta == Delta(KeyAt(i), target)
           IN  /\ (delta = 0) <=> (r.status = "skipped")
               /\ r.status = "skipped" =>
                    /\ r.order = i
                    /\ r.details.current_position = Settled(KeyAt(i))
                    /\ r.details.pending_position_change = Pending(KeyAt(i))
                    /\ r.details.effective_position = target
                    /\ r.details.target_position = target
                    /\ placed' = placed
                    /\ openOrders' = openOrders
                    /\ \A n \in 1..Len(calls') : calls'[n][1] # "placeOrder" \/ calls'[n][2] # i

C7_SkippedAtTarget == [][C7_Step]_vars

\* C7 witness: settled 3, pending 0, target 3 is skipped, nothing submitted.
C7_Witness ==
    \E k \in 1..Len(results) :
        /\ results[k].status = "skipped"
        /\ results[k].details.current_position = 3
        /\ results[k].details.pending_position_change = 0
        /\ results[k].details.effective_position = 3
        /\ results[k].details.target_position = 3
        /\ PlacedFor(k) = {}

\* The (action, qty) pairs an order may carry beside its 'position'
IntentInputs == {<<"", None>>, <<"BUY", Some(1)>>, <<"sell", Some(2)>>,
                 <<"SELL", None>>, <<"", Some(1)>>, <<"BUY", Some(0)>>}

\* C9: for an order that carries 'position', the iteration's outcome (its
\* result, the order it submits, the calls it makes) is the same whatever
\* 'action' and 'qty' the order also carries, under the same broker state
\* and the same broker behaviour.
C9_PositionPrecedence ==
    AtPositionOrder =>
        \A env \in EnvChoices :
            \E given \in {OrderOutcome(orders[i], i, positions, openOrders,
                                       nextId, env)} :
                \A aq \in IntentInputs :
                    OrderOutcome([orders[i] EXCEPT !.action = aq[1], !.qty = aq[2]],
                                 i, positions, openOrders, nextId, env) = given

\* C9 witness: an order with 'position' and a complete action/qty pair was
\* submitted with an action other than the one it carried.
C9_Witness ==
    \E k \in 1..Len(results) :
        /\ orders[k].position # None
        /\ TruthyStr(orders[k].action) /\ TruthyNum(orders[k].qty)
        /\ results[k].status = "success"
        /\ results[k].details.action # UpperStr(orders[k].action)
        /\ results[k].details.quantity # orders[k].qty[1]

----------------------------------------------------------------------------
(* Properties of the same request sent again *)

\* The previous request processed every order of the batch.
PreviousRunProcessed == req > 1 /\ Len(firstRun) = Len(orders)

PositionOrders == {k \in 1..Len(orders) : orders[k].position # None}

\* C8 as stated: when the same request is processed again, and no broker
\* call fails in either run, every position-based order is skipped and
\* nothing is submitted for it, for every conflict-free batch.
C8_ResendSkipsAll ==
    (PreviousRunProcessed /\ faults = 0)
        => \A k \in PositionOrders \cap (1..Len(results)) :
              /\ results[k].status = "skipped"
              /\ PlacedFor(k) = {}

\* Every other order of the batch on the contract of order k is
\* position-based with the target of order k.
SameTargetOnContract(k) ==
    \A j \in 1..Len(orders) :
        (/\ j # k
         /\ orders[j].symbol # <<>>
         /\ ParseSymbol(orders[j].symbol).ok
         /\ KeyAt(j) = KeyAt(k))
            => orders[j].position = orders[k].position

\* C8 amended: when the same request is processed again, a position-based
\* order that was submitted or skipped in the previous run, and whose broker
\* calls succeed in this one, is skipped and nothing is submitted for it,
\* provided every other order of the batch on its contract is position-based
\* with the same target.
C8_ResendSkips ==
    PreviousRunProcessed
        => \A k \in PositionOrders \cap (1..Len(results)) :
              (/\ firstRun[k] \in {"success", "skipped"}
               /\ ~BrokerFailure(results[k])
               /\ SameTargetOnContract(k))
                  => /\ results[k].status = "skipped"
                     /\ PlacedFor(k) = {}

\* C8 witness: two position-based orders with one target on one contract;
\* the first run submitted, the second run skipped both and submitted
\* nothing.
C8_Witness ==
    /\ PreviousRunProcessed
    /\ pc = "done"
    /\ orders = <<ToOneVX, StopOneVX>>
    /\ firstRun = <<"success", "skipped">>
    /\ Len(results) = 2
    /\ results[1].status = "skipped"
    /\ results[2].status = "skipped"
    /\ placed = <<>>

----------------------------------------------------------------------------
(* Properties of the order builder *)

Present(v) == v # None

\* The fields the normalized type of an order requires are present.
HasRequiredFields(od) ==
    LET t == NormalizedType(od)
    IN  CASE t = "LIMIT" -> Present(od.price)
          [] t = "STOP" -> Present(od.aux_price) \/ Present(od.price)
          [] t = "STOP_LIMIT" -> Present(od.price) /\ Present(od.aux_price)
          [] OTHER -> TRUE

BuilderErrors == {"price_required", "stop_price_required",
                  "both_prices_required", "unsupported_type"}

\* C10: an order is submitted only if the fields its type requires are
\* present; an order missing one gets an error result and is never
\* submitted; an order that has them is not rejected by the builder; a STOP
\* order with aux_price alone is submitted with aux_price as its trigger.
C10_RequiredFields ==
    \A k \in 1..Len(results) :
        /\ PlacedFor(k) # {} => HasRequiredFields(orders[k])
        /\ ~HasRequiredFields(orders[k]) => results[k].status = "error"
        /\ HasRequiredFields(orders[k]) =>
              ~(results[k].status = "error" /\ results[k].message \in BuilderErrors)
        /\ (/\ NormalizedType(orders[k]) = "STOP"
            /\ Present(orders[k].aux_price)
            /\ orders[k].price = None
            /\ PlacedFor(k) # {})
              => \A n \in PlacedFor(k) : placed[n].order.auxPrice = orders[k].aux_price

----------------------------------------------------------------------------
(* Properties of an unrecognized order type *)

\* The order type of order k of the batch is none of the recognized spellings.
Unrecognized(od) == UpperStr(GetOrderType(od)) \notin ValidOrderTypes

\* The batch with every unrecognized order type written as "MKT"
AsMarket(ords) ==
    [k \in 1..Len(ords) |->
        IF Unrecognized(ords[k]) THEN [ords[k] EXCEPT !.order_type = "MKT"]
        ELSE ords[k]]

\* C11: a request that would be accepted with its unrecognized order types
\* written as MKT is not rejected by the conflict check, and an order with an
\* unrecognized order type that is submitted is submitted as a market order.
C11_UnrecognizedIsMarket ==
    /\ (pc = "done" /\ orders # <<>> /\ NoConflict(AsMarket(orders)))
          => response.message # "conflict"
    /\ \A n \in 1..Len(placed) :
          Unrecognized(orders[placed[n].k]) => placed[n].order.orderType = "MKT"

----------------------------------------------------------------------------
(* Properties of the session's release *)

CallsNamed(name) == {n \in 1..Len(calls) : calls[n][1] = name}

\* The request passed the checks made before connect_to_ib is called.
PassedValidation == orders # <<>> /\ NoConflict(orders)

\* C12: when the handler has returned for a request that reached the
\* connection step, disconnect was invoked exactly once, whether the orders
\* succeeded, failed, or the connection setup itself raised.
C12_DisconnectExactlyOnce ==
    (pc = "done" /\ PassedValidation)
        => Cardinality(CallsNamed("disconnect")) = 1

----------------------------------------------------------------------------
(* Properties of the batch summary *)

CountOf(rs, st) == Cardinality({n \in 1..Len(rs) : rs[n].status = st})

\* C13: in the summary of a processed batch successful_orders is the number
\* of 'success' results, and the batch status is 'success' exactly when
\* successful_orders > 0 and 'error' otherwise.
C13_BatchStatus ==
    (pc = "done" /\ response.has_results)
        => /\ response.successful_orders = CountOf(results, "success")
           /\ response.status \in {"success", "error"}
           /\ response.status = "success" <=> response.successful_orders > 0

\* C13 witness: a processed batch whose orders were all skipped is reported
\* as 'error'.
C13_Witness ==
    /\ pc = "done"
    /\ response.has_results
    /\ Statuses(results) = {"skipped"}
    /\ response.status = "error"
    /\ response.successful_orders = 0

----------------------------------------------------------------------------
(* Properties of the HTTP status *)

\* The session was opened and was no longer connected when the handler
\* returned: no disconnect was made for it.
SessionLost == SessionOpened /\ CallsNamed("disconnect") = {}

\* No session was available to the orders that failed: the connection could
\* not be set up, or it was lost and a broker call of an order raised.
ConnectionClass ==
    /\ PassedValidation
    /\ \/ ~SessionOpened
       \/ /\ SessionLost
          /\ \E k \in 1..Len(results) : results[k].message = "exception"

\* The request, or each of its orders, was turned down without a broker call
\* raising.
ValidationClass ==
    \/ ~PassedValidation
    \/ /\ response.has_results
       /\ \A k \in 1..Len(results) : results[k].message # "exception"

\* C14: the response is 200 exactly when some order succeeded; when none
\* succeeded it is 500 for a connection-class cause (the session could not
\* be set up or was lost during the loop) and 400 for a validation-class
\* cause.
C14_HttpStatusClassification ==
    pc = "done"
        => /\ response.http = 200 <=> response.successful_orders > 0
           /\ (response.successful_orders = 0 /\ ConnectionClass)
                 => response.http = 500
           /\ (response.successful_orders = 0 /\ ValidationClass)
                 => response.http = 400

----------------------------------------------------------------------------
(* Properties of symbol resolution *)

Digits == {"0", "1", "2", "3", "4", "5", "6", "7", "8", "9"}

\* The symbol starts with the derivative prefix.
Derivative(sym) ==
    Len(sym) >= 2 /\ UpperChar(sym[1]) = "V" /\ UpperChar(sym[2]) = "X"

Fields(sym) == Split(UpperSym(sym), "-")

\* TICKER-MONTH-YY with a recognized month and a year of one or two digits
WellFormed(sym) ==
    /\ Derivative(sym)
    /\ Len(Fields(sym)) = 3
    /\ InMonthMap(Fields(sym)[2])
    /\ Len(Fields(sym)[3]) \in {1, 2}
    /\ \A n \in 1..Len(Fields(sym)[3]) : Fields(sym)[3][n] \in Digits

\* YY zero-padded to two digits
PaddedYear(yy) == IF Len(yy) = 1 THEN <<"0">> \o yy ELSE yy

\* The key a well-formed symbol is to resolve to: TICKER and 20YY ++ MM
ExpectedKey(sym) ==
    << Fields(sym)[1],
       <<"2", "0">> \o PaddedYear(Fields(sym)[3]) \o MonthMap(Fields(sym)[2]) >>

\* C15: an order on a well-formed derivative symbol is submitted on the
\* contract with rootSymbol TICKER and the six-character expiry 20YY ++ MM,
\* YY zero-padded; two submitted orders whose symbols name different
\* contracts have different keys; an order on a derivative symbol with a
\* wrong field count or an unrecognized month gets an error result and is
\* not submitted.
C15_SymbolResolution ==
    /\ \A n \in 1..Len(placed) :
          WellFormed(orders[placed[n].k].symbol)
              => /\ placed[n].key = ExpectedKey(orders[placed[n].k].symbol)
                 /\ Len(placed[n].key[2]) = 6
    /\ \A n, m \in 1..Len(placed) :
          (/\ WellFormed(orders[placed[n].k].symbol)
           /\ WellFormed(orders[placed[m].k].symbol)
           /\ ExpectedKey(orders[placed[n].k].symbol)
                 # ExpectedKey(orders[placed[m].k].symbol))
              => placed[n].key # placed[m].key
    /\ \A k \in 1..Len(results) :
          (Derivative(orders[k].symbol) /\ ~WellFormed(orders[k].symbol))
              => /\ results[k].status = "error"
                 /\ PlacedFor(k) = {}

----------------------------------------------------------------------------
(* Properties of the snapshots read by position-based orders *)

\* Order k reads the position and open-order snapshots when no broker call
\* fails: it is position-based and its symbol resolves to a contract.
ReadsSnapshots(od) ==
    /\ od.symbol # <<>>
    /\ od.position # None
    /\ ParseSymbol(od.symbol).ok

\* The batch processed with the open-order snapshot fetched once per
\* contract key and reused: cache maps a key to the snapshot kept for it.
RECURSIVE CachedRun(_, _, _, _, _, _, _, _)
CachedRun(ords, n, pos, opn, id, cache, rs, pl) ==
    IF n > Len(ords) THEN [results |-> rs, placed |-> pl]
    ELSE LET od == ords[n]
             reads == ReadsSnapshots(od)
             key == KeyOf(ParseSymbol(od.symbol).contract)
             cached == reads /\ key \in DOMAIN cache
             out == OrderOutcome(od, n, pos, IF cached THEN cache[key] ELSE opn,
                                 id, "ok")
             kept == IF reads /\ ~cached
                     THEN [c \in (DOMAIN cache) \cup {key} |->
                              IF c = key THEN opn ELSE cache[c]]
                     ELSE cache
         IN  CachedRun(ords, n + 1, pos,
                       opn \cup {OpenTrade(out.place[m]) : m \in 1..Len(out.place)},
                       id + Len(out.place), kept, Append(rs, out.result),
                       pl \o out.place)

\* The request was processed without a broker failure and without a fill.
QuietRun == pc = "done" /\ response.has_results /\ faults = 0 /\ fills = 0

\* The open orders the request found: those not submitted by it
OpenBefore == openOrders \ {OpenTrade(placed[n]) : n \in 1..Len(placed)}

SameAsCached ==
    LET run == CachedRun(orders, 1, positions, OpenBefore, nextId - Len(placed),
                         <<>>, <<>>, <<>>)
    IN  results = run.results /\ placed = run.placed

\* C16 as stated: every batch processed with fresh snapshots has the results
\* and the submitted orders of the same batch processed with snapshots
\* cached per contract key.
C16_CachingEquivalent == QuietRun => SameAsCached

\* Orders j < k read the snapshots of one contract.
ReadSameContract(j, k) ==
    /\ j < k
    /\ ReadsSnapshots(orders[j]) /\ ReadsSnapshots(orders[k])
    /\ KeyAt(j) = KeyAt(k)

\* No order was submitted on a contract from the first position-based order
\* on it up to a later position-based order on it.
NoSubmitBetweenReads ==
    \A j, k \in 1..Len(orders) :
        ReadSameContract(j, k)
            => \A n \in 1..Len(placed) :
                  ~(placed[n].key = KeyAt(k) /\ j <= placed[n].k /\ placed[n].k < k)

\* C16 amended: a batch processed with fresh snapshots has the results and
\* the submitted orders of the same batch processed with cached snapshots,
\* provided no order is submitted on a contract between two position-based
\* orders on it, the earlier of the two included.
C16_CachingEquivalentUnlessStale ==
    (QuietRun /\ NoSubmitBetweenReads) => SameAsCached

\* C16 witness: two position-based orders on one contract, the second sized
\* from the reused snapshot and submitted, and the results agree.
C16_Witness ==
    /\ QuietRun
    /\ NoSubmitBetweenReads
    /\ \E j, k \in 1..Len(orders) :
          ReadSameContract(j, k) /\ PlacedFor(k) # {}
    /\ SameAsCached

----------------------------------------------------------------------------
(* Properties of the per-order intent validation *)

\* The broker calls made for order k
CallsFor(k) == {n \in 1..Len(calls) : calls[n][2] = k}

\* No symbol, or no 'position' and a missing/empty action or missing/zero qty
LacksIntent(od) ==
    \/ od.symbol = <<>>
    \/ /\ od.position = None
       /\ (od.action = "" \/ od.qty = None \/ od.qty = Some(0))

IntentErrors == {"missing_symbol", "missing_intent"}

\* C17: an order with no symbol, or with no 'position' and a missing action
\* or a missing or zero qty, gets an error result without any broker call
\* made for it and without being submitted; an order with a symbol and a
\* 'position' (0 included) is not turned down by this validation, whatever
\* its action and qty.
C17_IntentCheckedBeforeBroker ==
    \A k \in 1..Len(results) :
        /\ LacksIntent(orders[k])
              => /\ results[k].status = "error"
                 /\ results[k].message \in IntentErrors
                 /\ CallsFor(k) = {}
                 /\ PlacedFor(k) = {}
        /\ (orders[k].symbol # <<>> /\ orders[k].position # None)
              => ~(results[k].status = "error"
                     /\ results[k].message \in IntentErrors)

\* C17 witness: an order with qty 0 and no 'position' was turned down
\* without a broker call, and an order with position 0 and no action/qty
\* was submitted.
C17_Witness ==
    /\ pc = "done"
    /\ \E k \in 1..Len(results) :
          /\ orders[k].symbol # <<>>
          /\ orders[k].position = None
          /\ orders[k].action = "BUY" /\ orders[k].qty = Some(0)
          /\ results[k].status = "error"
          /\ CallsFor(k) = {}
    /\ \E k \in 1..Len(results) :
          /\ orders[k].position = Some(0)
          /\ orders[k].action = "" /\ orders[k].qty = None
          /\ results[k].status = "success"
          /\ CallsFor(k) # {}

----------------------------------------------------------------------------
(* Properties of connect_to_ib *)

\* The attempt in progress is one of the `retries` attempts, and one delay
\* was slept before each attempt but the first.
AttemptsBounded ==
    /\ attempt \in 0..(Retries - 1)
    /\ pc = "connect" => slept = attempt

\* A raised connection failure: all attempts were made, with a delay between
\* them only, the answer is 500 and no order was processed.
RaisedFailsRequest ==
    response.message = "connection_error"
        => /\ pc = "done"
           /\ attempt = Retries - 1
           /\ slept = Retries - 1
           /\ response.http = 500
           /\ ~response.has_results
           /\ results = <<>> /\ placed = <<>> /\ calls = <<>>

ConnectStep ==
    /\ (pc = "connect" /\ connected')
          => pc' = "loop" /\ ~connected
    /\ (pc = "connect" /\ pc' = "connect" /\ attempt' # attempt)
          => attempt' = attempt + 1 /\ slept' = slept + 1 /\ ~connected'
    /\ (pc = "connect" /\ pc' = "done")
          => /\ attempt = Retries - 1
             /\ slept' = slept
             /\ response'.message = "connection_error"
    /\ pc \in {"loop", "done"} => pc' # "connect"

\* C18: connect_to_ib makes at most `retries` attempts, returns at the first
\* successful one without attempting again, sleeps `delay` between attempts
\* only, raises only after the last attempt failed, and always comes to an
\* end; a raised failure is answered with 500 and no order is processed.
C18_ConnectionRetry ==
    /\ [](AttemptsBounded /\ RaisedFailsRequest)
    /\ [][ConnectStep]_vars
    /\ (pc = "connect") ~> (pc # "connect")

\* C18 witness: all attempts failed with a delay between them only, and the
\* request is answered with 500.
C18_Witness ==
    /\ pc = "done"
    /\ orders # <<>>
    /\ response.message = "connection_error"
    /\ response.http = 500
    /\ attempt = Retries - 1
    /\ slept = Retries - 1

----------------------------------------------------------------------------
(* Properties of the reported outcome *)

\* C19: the orders submitted to the broker are exactly the orders reported
\* as 'success': a 'success' order was submitted exactly once, and an order
\* reported 'error' or 'skipped' was not submitted, also when the wait or
\* the status read-back after the submission fails.
C19_ReportedMatchesSubmitted ==
    \A k \in 1..Len(results) :
        /\ results[k].status = "success" => Cardinality(PlacedFor(k)) = 1
        /\ results[k].status \in {"error", "skipped"} => PlacedFor(k) = {}

----------------------------------------------------------------------------
(* Properties of the counts of the summary *)

\* C20: in every response that carries 'results', total_orders is the
\* number of results and the sum of successful_orders and failed_orders,
\* and failed_orders counts every result that is not 'success', 'skipped'
\* results included.
C20_CountInvariant ==
    (pc = "done" /\ response.has_results)
        => /\ response.total_orders = Len(results)
           /\ response.total_orders
                 = response.successful_orders + response.failed_orders
           /\ response.failed_orders
                 = CountOf(results, "error") + CountOf(results, "skipped")
           /\ \A k \in 1..Len(results) :
                 results[k].status \in {"success", "error", "skipped"}

\* C20 witness: a response with a submitted, a skipped and a failed order
\* counts two failed orders.
C20_Witness ==
    /\ pc = "done"
    /\ response.has_results
    /\ CountOf(results, "success") = 1
    /\ CountOf(results, "skipped") = 1
    /\ CountOf(results, "error") = 1
    /\ response.total_orders = 3
    /\ response.failed_orders = 2

----------------------------------------------------------------------------
(* Properties of the session's scope *)

\* The calls made on the session for an order
SessionCalls == {"qualifyContracts", "positions", "openOrders", "placeOrder",
                 "sleep"}

\* C21: a request connects at most once; every qualify, positions,
\* openOrders and submit call of it comes after that connect and before any
\* disconnect, the disconnect being the last call of the request; a session
\* is connected only while the loop runs, so that none is still connected
\* when the handler has returned, on any path.
C21_SessionScopedNoLeak ==
    /\ Cardinality(CallsNamed("connect")) <= 1
    /\ \A n \in 1..Len(calls) :
          /\ calls[n][1] \in SessionCalls
                => /\ \E c \in 1..(n - 1) : calls[c][1] = "connect"
                   /\ \A d \in 1..n : calls[d][1] # "disconnect"
          /\ calls[n][1] = "disconnect" => n = Len(calls) /\ pc = "done"
    /\ connected => pc = "loop" /\ SessionOpened
    /\ pc = "done" => ~connected

\* C21 witness: the handler returned after a batch with a submitted and a
\* failed order; the calls start with the connect and end with the
\* disconnect, and the session is no longer connected.
C21_Witness ==
    /\ pc = "done"
    /\ ~connected
    /\ Len(calls) >= 3
    /\ calls[1][1] = "connect"
    /\ calls[Len(calls)][1] = "disconnect"
    /\ CallsNamed("placeOrder") # {}
    /\ {"success", "error"} \subseteq Statuses(results)

====
